---- MODULE Spec2Model ----
(***************************************************************************)
(* The realtime session coordinator of src/hooks/useGeminiLive.ts (the     *)
(* current revision, lines 1-293): the React hook's state and refs, the    *)
(* connect / disconnect / cleanup operations, the transport callbacks      *)
(* (onopen, onmessage, onclose, onerror), the audio output scheduler, the  *)
(* audio tap and the frame sampler, the visible utterance text, the tool   *)
(* calls, the gain of the output sink and generateSessionReport; and       *)
(* stopRecording of                                                        *)
(* src/components/VideoInterface.tsx, which calls disconnect() and then    *)
(* generateSessionReport().                                                *)
(*                                                                         *)
(* Sessions are numbered 1..MaxSessions in the order connect() creates     *)
(* their audio contexts; 0 stands for a null ref.  Every object a          *)
(* connect() call creates (input context, output context, gain node,       *)
(* transport, and later the processor and the sampler timer) carries the   *)
(* number of that call.                                                    *)
(***************************************************************************)
EXTENDS Integers, Sequences, FiniteSets, TLC

\* ---- bounds of the model ------------------------------------------------
MaxSessions == 2     \* connect() calls that get past the guard
MaxAudio == 2        \* inbound audio payloads
MaxDeltas == 4       \* inbound transcript deltas
MaxTime == 1         \* ticks of an output context's clock
MaxDur == 1          \* longest decoded buffer, in ticks
MaxCalls == 2        \* inbound function calls
MaxReports == 2      \* generateSessionReport() calls
MaxCaptured == 3     \* capture callbacks and sampler ticks
MaxTurns == 1        \* inbound turn-complete signals

\* ---- program constants --------------------------------------------------
PromptWindow == 300

Sessions == 1..MaxSessions
Null == 0

Ready == <<"Ready to record...">>
Listening == <<"Listening...">>
SessionEnded == <<"Session ended.">>
NoError == "none"
StreamError == "Video stream not initialized"

\* transcript text is a sequence of characters; <<>> is "" (or a missing text)
Texts == {<<>>, <<"a">>, <<"b">>}

VARIABLES
  \* useState
  isConnected, isConnecting, currentPrompt, activeInsight, error,
  \* the values of the last render, which the closures connect() and the
  \* transport callbacks read
  rendered,
  \* props
  isTeleprompterActive, isAudioEnabled,
  \* useRef
  sessionRef, inputAudioContextRef, outputAudioContextRef, gainNodeRef,
  nextStartTimeRef, videoIntervalRef, processorRef, sourceRef, sourcesRef,
  historyRef, isSendingFrame,
  \* objects the hook created
  nSessions,      \* connect() calls that created audio contexts
  inputCtx,       \* session -> "none" | "running" | "closed"
  outputCtx,      \* session -> "none" | "running" | "closed"
  outTime,        \* session -> currentTime of its output context
  transport,      \* session -> "none" | "connecting" | "open" | "closed"
  capTele,        \* session -> isTeleprompterActive its callbacks closed over
  capAudio,       \* session -> isAudioEnabled its connect() call closed over
  gain,           \* session -> the target of its gain node's gain: 0 or 1
  taps,           \* sessions whose script processor is connected
  timers,         \* sessions whose frame-sampler interval is running
  units,          \* every AudioBufferSourceNode started, in start order
  insightTimers,  \* pending setTimeout(() => setActiveInsight(null), 8000)
  responses,      \* tool responses handed to a transport, in send order
  promise,        \* session -> "pending" | "fulfilled" | "rejected": the
                  \* sessionPromise of its connect() call
  waiting,        \* session -> the callbacks passed to sessionPromise.then()
                  \* while the promise was pending, in call order
  outbound,       \* the sendRealtimeInput() calls, in call order
  \* the environment
  apiKey,         \* process.env.API_KEY is set
  tracksStopped,  \* stop() was called on a track of the caller's media stream
  \* handlers suspended at an await
  connecting,     \* connect() calls waiting for resume()
  decoding,       \* onmessage calls waiting for decodeAudioData()
  reporting,      \* generateSessionReport() calls waiting for generateContent()
  \* history of the run
  nAudio,         \* audio payloads received
  deltas,         \* transcript deltas handled since the last history reset
  epoch,          \* the scheduling sequence: interruptions that ended one
  closes,         \* session -> close() calls on its contexts
  disconnected,   \* disconnect() returned and no connect() was accepted since
  refused,        \* a connect() call returned for want of the API key
  nCalls,         \* function calls received
  shown,          \* function calls that set the active insight
  rejected,       \* onmessage calls that ended with an exception
  nReports,       \* generateSessionReport() calls
  requests,       \* generateContent() requests made
  results,        \* what the generateSessionReport() calls returned, in order
  nCaptured,      \* capture callbacks and sampler ticks that fired
  turns,          \* turn-complete signals received
  elapsed         \* those of them received at least the fixed delay ago

hookState == <<isConnected, isConnecting, currentPrompt, error, rendered,
               isTeleprompterActive>>
insight == <<insightTimers, responses, nCalls, shown, rejected>>
report == <<reporting, nReports, requests, results>>
environment == <<apiKey, tracksStopped>>
capture == <<isSendingFrame, promise, waiting, outbound, nCaptured>>
turn == <<turns, elapsed>>
mute == <<isAudioEnabled, capAudio, gain>>
refs == <<sessionRef, inputAudioContextRef, outputAudioContextRef, gainNodeRef,
          nextStartTimeRef, videoIntervalRef, processorRef, sourceRef,
          sourcesRef, historyRef>>
objects == <<nSessions, inputCtx, outputCtx, outTime, transport, capTele, taps,
             timers, units>>
suspended == <<connecting, decoding>>
history == <<nAudio, deltas, epoch, closes, disconnected>>
vars == <<hookState, refs, objects, suspended, history, activeInsight,
          insight, report, environment, refused, capture, turn, mute>>

Max(a, b) == IF a >= b THEN a ELSE b

\* String.prototype.slice(-n): the last n characters
SliceLast(s, n) == IF Len(s) <= n THEN s ELSE SubSeq(s, Len(s) - n + 1, Len(s))

Phase ==
  IF isConnected THEN "Open"
  ELSE IF isConnecting THEN "Connecting"
  ELSE IF error # NoError THEN "Error"
  ELSE "Idle"

Live(s) == transport[s] \in {"connecting", "open"}

Init ==
  /\ isConnected = FALSE
  /\ isConnecting = FALSE
  /\ currentPrompt = Ready
  /\ error = NoError
  /\ rendered = [isConnected |-> FALSE, isConnecting |-> FALSE]
  /\ isTeleprompterActive = FALSE
  /\ sessionRef = Null
  /\ inputAudioContextRef = Null
  /\ outputAudioContextRef = Null
  /\ gainNodeRef = Null
  /\ nextStartTimeRef = 0
  /\ videoIntervalRef = Null
  /\ processorRef = Null
  /\ sourceRef = Null
  /\ sourcesRef = {}
  /\ historyRef = <<>>
  /\ nSessions = 0
  /\ inputCtx = [s \in Sessions |-> "none"]
  /\ outputCtx = [s \in Sessions |-> "none"]
  /\ outTime = [s \in Sessions |-> 0]
  /\ transport = [s \in Sessions |-> "none"]
  /\ capTele = [s \in Sessions |-> FALSE]
  /\ taps = {}
  /\ timers = {}
  /\ units = <<>>
  /\ connecting = {}
  /\ decoding = {}
  /\ nAudio = 0
  /\ deltas = <<>>
  /\ epoch = 0
  /\ closes = [s \in Sessions |-> [input |-> 0, output |-> 0]]
  /\ disconnected = FALSE
  /\ activeInsight = Null
  /\ insightTimers = {}
  /\ responses = <<>>
  /\ nCalls = 0
  /\ shown = {}
  /\ rejected = 0
  /\ reporting = {}
  /\ nReports = 0
  /\ requests = 0
  /\ results = <<>>
  /\ apiKey \in BOOLEAN
  /\ tracksStopped = FALSE
  /\ refused = FALSE
  /\ isSendingFrame = FALSE
  /\ promise = [s \in Sessions |-> "pending"]
  /\ waiting = [s \in Sessions |-> <<>>]
  /\ outbound = <<>>
  /\ nCaptured = 0
  /\ turns = 0
  /\ elapsed = 0
  /\ isAudioEnabled = TRUE
  /\ capAudio = [s \in Sessions |-> TRUE]
  /\ gain = [s \in Sessions |-> 1]

\* The scheduling sequences: units scheduled with no interruption between them
\* share an epoch.  An interruption with no unit scheduled since the last one
\* starts no new sequence.
NextEpoch ==
  IF \E u \in DOMAIN units : units[u].epoch = epoch THEN epoch + 1 ELSE epoch

\* ---- cleanup ------------------------------------------------------------
StopNone(us, set) == us

StopTracks(stopped) == TRUE

\* sourceRef.current.disconnect(), line 62: the node leaves the audio graph;
\* the tracks of the stream it read stay as they were
DisconnectSource(stopped) == stopped

\* source.stop() on every member of the active playback set
StopAll(us, set) ==
  [u \in DOMAIN us |-> IF u \in set THEN [us[u] EXCEPT !.status = "stopped"]
                       ELSE us[u]]

HardCut(us, set) == StopAll(us, set)

\* line 88: gain.setTargetAtTime(...) ramps the gain of the sink; the sources
\* of the active playback set go on playing
Ramp(us, set) == us

\* line 108: gainNode.gain.value = (isAudioEnabled && !isTeleprompterActive) ? 1 : 0
InitialGain(audio, tele) == IF audio /\ ~tele THEN 1 ELSE 0

\* lines 86-87: shouldMute = !isAudioEnabled || isTeleprompterActive;
\* targetGain = shouldMute ? 0 : 1
TargetGain(audio, tele) == IF ~audio \/ tele THEN 0 ELSE 1

\* the effect of lines 84-90, run after a render in which one of the two flags
\* changed, with the flags audio and tele of that render
MuteEffect(audio, tele) ==
  /\ gain' = IF gainNodeRef # Null /\ outputAudioContextRef # Null
             THEN [gain EXCEPT ![gainNodeRef] = TargetGain(audio, tele)]
             ELSE gain
  /\ units' = Ramp(units, sourcesRef)

KeepFlags == UNCHANGED <<isConnected, isConnecting>>

\* lines 78-79: setIsConnected(false); setIsConnecting(false)
ResetFlags ==
  /\ isConnected' = FALSE
  /\ isConnecting' = FALSE

\* a cleanup that closes the contexts and keeps the refs to them
CleanupKeepingRefs(inRef, outRef) ==
  /\ timers' = timers \ {videoIntervalRef}
  /\ videoIntervalRef' = Null
  /\ taps' = taps \ {processorRef}
  /\ processorRef' = Null
  /\ sourceRef' = Null
  /\ tracksStopped' = IF sourceRef # Null THEN DisconnectSource(tracksStopped)
                      ELSE tracksStopped
  /\ units' = StopAll(units, sourcesRef)
  /\ sourcesRef' = {}
  /\ inputCtx' = IF inRef # Null THEN [inputCtx EXCEPT ![inRef] = "closed"]
                 ELSE inputCtx
  /\ outputCtx' = IF outRef # Null THEN [outputCtx EXCEPT ![outRef] = "closed"]
                  ELSE outputCtx
  /\ closes' = [s \in Sessions |->
                  [input |-> closes[s].input + (IF s = inRef THEN 1 ELSE 0),
                   output |-> closes[s].output + (IF s = outRef THEN 1 ELSE 0)]]
  /\ inputAudioContextRef' = inRef
  /\ outputAudioContextRef' = outRef
  /\ sessionRef' = Null
  /\ ResetFlags
  /\ activeInsight' = Null

\* cleanup(), run when the input and output context refs hold inRef and outRef
\* (connect's catch runs it right after connect set them).  It assigns every
\* ref but gainNodeRef, nextStartTimeRef and historyRef, which it leaves alone.
Cleanup(inRef, outRef) ==
  /\ timers' = timers \ {videoIntervalRef}
  /\ videoIntervalRef' = Null
  /\ taps' = taps \ {processorRef}
  /\ processorRef' = Null
  /\ sourceRef' = Null
  /\ tracksStopped' = IF sourceRef # Null THEN DisconnectSource(tracksStopped)
                      ELSE tracksStopped
  /\ units' = StopAll(units, sourcesRef)
  /\ sourcesRef' = {}
  /\ inputCtx' = IF inRef # Null THEN [inputCtx EXCEPT ![inRef] = "closed"]
                 ELSE inputCtx
  /\ outputCtx' = IF outRef # Null THEN [outputCtx EXCEPT ![outRef] = "closed"]
                  ELSE outputCtx
  /\ closes' = [s \in Sessions |->
                  [input |-> closes[s].input + (IF s = inRef THEN 1 ELSE 0),
                   output |-> closes[s].output + (IF s = outRef THEN 1 ELSE 0)]]
  /\ inputAudioContextRef' = Null
  /\ outputAudioContextRef' = Null
  /\ sessionRef' = Null
  /\ ResetFlags
  /\ activeInsight' = Null

\* what a teardown does to the handlers suspended at the decode await: nothing
\* (they keep the context they captured); the model only remembers that a
\* teardown or an interruption passed them by
Passed(ds, what) ==
  {[d EXCEPT ![what] = TRUE] : d \in ds}

\* ---- connect ------------------------------------------------------------
\* connect(), lines 107-256: from the gain node to the end, the catch
\* included.  begin says that the call did not suspend at resume(), so that
\* the assignments of lines 95-97 belong to the same step.
ConnectRest(s, hasStream, begin) ==
  /\ gainNodeRef' = s
  /\ gain' = [gain EXCEPT ![s] =
               IF begin THEN InitialGain(isAudioEnabled, isTeleprompterActive)
               ELSE InitialGain(capAudio[s], capTele[s])]
  /\ nextStartTimeRef' = 0
  /\ UNCHANGED epoch
  /\ IF hasStream
     THEN /\ inputAudioContextRef' = s
          /\ outputAudioContextRef' = s
          /\ inputCtx' = [inputCtx EXCEPT ![s] = "running"]
          /\ outputCtx' = [outputCtx EXCEPT ![s] = "running"]
          /\ transport' = [transport EXCEPT ![s] = "connecting"]
          /\ sessionRef' = s
          /\ isConnecting' = (begin \/ isConnecting)
          /\ error' = IF begin THEN NoError ELSE error
          /\ UNCHANGED <<isConnected, videoIntervalRef, processorRef, sourceRef,
                         sourcesRef, taps, timers, units, closes,
                         activeInsight, tracksStopped>>
     ELSE \* the throw of line 117, caught at line 253
          /\ error' = StreamError
          /\ Cleanup(s, s)
          /\ UNCHANGED transport

\* connect() without process.env.API_KEY: line 93 returns
ConnectNoKey ==
  /\ ~apiKey
  /\ refused' = TRUE
  /\ UNCHANGED <<hookState, refs, objects, suspended, history, activeInsight,
                 insight, report, environment,
                 capture, turn, mute>>

\* connect() while the rendered flags say connecting or connected: line 93
ConnectIgnored ==
  /\ rendered.isConnecting \/ rendered.isConnected
  /\ UNCHANGED vars

\* connect() past the guard, lines 95-105, and on to the end when neither
\* context is suspended
ConnectBegin(suspends, hasStream) ==
  /\ apiKey
  /\ ~rendered.isConnecting
  /\ ~rendered.isConnected
  /\ nSessions < MaxSessions
  /\ LET s == nSessions + 1 IN
       /\ nSessions' = s
       /\ historyRef' = <<>>
       /\ deltas' = <<>>
       /\ disconnected' = FALSE
       /\ outTime' = [outTime EXCEPT ![s] = 0]
       /\ capTele' = [capTele EXCEPT ![s] = isTeleprompterActive]
       /\ capAudio' = [capAudio EXCEPT ![s] = isAudioEnabled]
       /\ IF suspends
          THEN /\ connecting' = connecting \cup {s}
               /\ isConnecting' = TRUE
               /\ error' = NoError
               /\ inputCtx' = [inputCtx EXCEPT ![s] = "running"]
               /\ outputCtx' = [outputCtx EXCEPT ![s] = "running"]
               /\ UNCHANGED <<isConnected, sessionRef, inputAudioContextRef,
                              outputAudioContextRef, gainNodeRef,
                              nextStartTimeRef, videoIntervalRef, processorRef,
                              sourceRef, sourcesRef, transport, taps, timers,
                              units, epoch, closes, activeInsight,
                              tracksStopped, gain>>
          ELSE /\ UNCHANGED connecting
               /\ ConnectRest(s, hasStream, TRUE)
  /\ UNCHANGED <<currentPrompt, rendered, isTeleprompterActive, decoding, nAudio,
                 insight, report, apiKey, refused, capture, turn,
                 isAudioEnabled>>

\* connect() resumed after the await of resume(), lines 107-256
ConnectFinish(s, hasStream) ==
  /\ s \in connecting
  /\ connecting' = connecting \ {s}
  /\ ConnectRest(s, hasStream, FALSE)
  /\ UNCHANGED <<currentPrompt, rendered, isTeleprompterActive, historyRef,
                 nSessions, outTime, capTele, decoding, nAudio, deltas,
                 disconnected, insight, report, apiKey, refused, capture, turn,
                 isAudioEnabled, capAudio>>

\* ---- disconnect and the transport's close and error events ---------------
\* disconnect(), lines 259-262
DisconnectCall ==
  /\ Cleanup(inputAudioContextRef, outputAudioContextRef)
  /\ currentPrompt' = SessionEnded
  /\ disconnected' = TRUE
  /\ decoding' = Passed(decoding, "disconnected")
  /\ UNCHANGED <<error, rendered, isTeleprompterActive, gainNodeRef,
                 nextStartTimeRef, historyRef, nSessions, outTime, transport,
                 capTele, connecting, nAudio, deltas, epoch, insight, apiKey,
                 refused,
                 capture, turn, mute>>

\* disconnect() called on its own
Disconnect ==
  /\ DisconnectCall
  /\ UNCHANGED report

OnClose(s) ==
  /\ Live(s)
  /\ transport' = [transport EXCEPT ![s] = "closed"]
  /\ Cleanup(inputAudioContextRef, outputAudioContextRef)
  /\ UNCHANGED <<currentPrompt, error, rendered, isTeleprompterActive,
                 gainNodeRef, nextStartTimeRef, historyRef, nSessions, outTime,
                 capTele, connecting, decoding, nAudio, deltas, epoch,
                 disconnected, insight, report, apiKey, refused,
                 capture, turn, mute>>

OnError(s) ==
  /\ Live(s)
  /\ transport' = [transport EXCEPT ![s] = "closed"]
  /\ Cleanup(inputAudioContextRef, outputAudioContextRef)
  /\ UNCHANGED <<currentPrompt, error, rendered, isTeleprompterActive,
                 gainNodeRef, nextStartTimeRef, historyRef, nSessions, outTime,
                 capTele, connecting, decoding, nAudio, deltas, epoch,
                 disconnected, insight, report, apiKey, refused,
                 capture, turn, mute>>

\* ---- the transport's open event ------------------------------------------
\* throws: createMediaStreamSource raised on the session's input context
\* (a browser may refuse a closed context), which ends the callback at line 137
OnOpen(s, throws) ==
  /\ transport[s] = "connecting"
  /\ throws => inputCtx[s] = "closed"
  /\ transport' = [transport EXCEPT ![s] = "open"]
  /\ isConnected' = TRUE
  /\ isConnecting' = FALSE
  /\ currentPrompt' = Listening
  /\ IF throws
     THEN UNCHANGED <<sourceRef, processorRef, videoIntervalRef, taps, timers>>
     ELSE /\ sourceRef' = s
          /\ processorRef' = s
          /\ taps' = taps \cup {s}
          /\ videoIntervalRef' = s
          /\ timers' = timers \cup {s}
  /\ UNCHANGED <<error, rendered, isTeleprompterActive, sessionRef,
                 inputAudioContextRef, outputAudioContextRef, gainNodeRef,
                 nextStartTimeRef, sourcesRef, historyRef, nSessions, inputCtx,
                 outputCtx, outTime, capTele, units, suspended, history,
                 activeInsight, insight, report, environment, refused,
                 capture, turn, mute>>

\* ---- inbound messages ----------------------------------------------------
AppendAlways(h, role, text) == Append(h, [role |-> role, text |-> text])

AppendDeltaByFirst(h, role, text) ==
  IF Len(h) > 0 /\ h[1].role = role
  THEN [h EXCEPT ![Len(h)].text = @ \o text]
  ELSE Append(h, [role |-> role, text |-> text])

\* lines 208-210 and 220-222: merge a delta into the last entry of its role
AppendDelta(h, role, text) ==
  IF Len(h) > 0 /\ h[Len(h)].role = role
  THEN [h EXCEPT ![Len(h)].text = @ \o text]
  ELSE Append(h, [role |-> role, text |-> text])

\* a LiveServerMessage: the fields the handler looks at (absent: the field is
\* missing from the message)
Absent == [has |-> FALSE, text |-> <<>>]
Delta(t) == [has |-> TRUE, text |-> t]
Message(i, in, out, a) ==
  [calls |-> <<>>, turnComplete |-> FALSE, interrupted |-> i,
   hasInput |-> in.has,
   inputText |-> in.text, hasOutput |-> out.has, outputText |-> out.text,
   audio |-> a]

\* a message whose serverContent carries turnComplete
TurnComplete(m) == [m EXCEPT !.turnComplete = TRUE]

\* ---- tool calls -----------------------------------------------------------
InsightCardTool == "createInsightCard"
OtherTool == "otherTool"

\* a FunctionCall of message.toolCall.functionCalls; hasArgs says that fc.args
\* is present (the field is optional)
FunctionCall(id, name, hasArgs) == [id |-> id, name |-> name, hasArgs |-> hasArgs]

\* a message whose toolCall carries the function calls cs
ToolCall(cs, m) == [m EXCEPT !.calls = cs]

RecognizedAny(name) == TRUE

\* line 178: fc.name === 'createInsightCard'
Recognized(name) == name = InsightCardTool

\* line 191: the function response of a call
FunctionResponse(s, fc) ==
  [session |-> s, id |-> fc.id, name |-> fc.name, result |-> "ok"]

\* lines 177-194: the loop over the function calls, from the state acc.  The
\* read of args.title at line 184 raises a TypeError when fc.args is missing,
\* which ends the handler; the responses already queued on the session promise
\* are still sent.
RECURSIVE HandleCalls(_, _, _, _)
HandleCalls(s, calls, tele, acc) ==
  IF calls = <<>> THEN acc
  ELSE LET fc == Head(calls) IN
    IF ~Recognized(fc.name) THEN HandleCalls(s, Tail(calls), tele, acc)
    ELSE IF ~tele /\ ~fc.hasArgs THEN [acc EXCEPT !.thrown = TRUE]
    ELSE HandleCalls(s, Tail(calls), tele,
           [active |-> IF tele THEN acc.active ELSE fc.id,
            timers |-> IF tele THEN acc.timers ELSE acc.timers \cup {fc.id},
            shown |-> IF tele THEN acc.shown ELSE acc.shown \cup {fc.id},
            sent |-> Append(acc.sent, FunctionResponse(s, fc)),
            thrown |-> FALSE])

KeepClock(next) == next

\* line 202: nextStartTimeRef.current = 0
ResetClock(next) == 0

\* onmessage, lines 197-229: the server content of a message, up to the await
\* of decodeAudioData
OnServerContent(s, m) ==
  LET afterInput ==
        IF m.hasInput /\ m.inputText # <<>>
        THEN AppendDelta(historyRef, "user", m.inputText)
        ELSE historyRef
      loggedInput ==
        IF m.hasInput
        THEN Append(deltas, [role |-> "user", text |-> m.inputText])
        ELSE deltas
      pending == IF m.interrupted THEN Passed(decoding, "interrupted")
                 ELSE decoding
  IN
    /\ IF m.interrupted
       THEN /\ units' = StopAll(units, sourcesRef)
            /\ sourcesRef' = {}
            /\ nextStartTimeRef' = ResetClock(nextStartTimeRef)
            /\ epoch' = NextEpoch
       ELSE UNCHANGED <<units, sourcesRef, nextStartTimeRef, epoch>>
    /\ IF m.hasOutput
       THEN /\ currentPrompt' =
                 IF capTele[s] THEN currentPrompt
                 ELSE IF currentPrompt = Listening THEN m.outputText
                 ELSE SliceLast(currentPrompt \o m.outputText, PromptWindow)
            /\ historyRef' = AppendDelta(afterInput, "model", m.outputText)
            /\ deltas' = Append(loggedInput,
                                [role |-> "model", text |-> m.outputText])
       ELSE /\ historyRef' = afterInput
            /\ deltas' = loggedInput
            /\ UNCHANGED currentPrompt
    /\ IF m.audio > 0
       THEN /\ nAudio' = nAudio + 1
            /\ decoding' =
                 IF outputAudioContextRef # Null /\ gainNodeRef # Null
                 THEN pending \cup {[id |-> nAudio + 1,
                                     ctx |-> outputAudioContextRef,
                                     dur |-> m.audio,
                                     interrupted |-> FALSE,
                                     disconnected |-> FALSE]}
                 ELSE pending
       ELSE /\ decoding' = pending
            /\ UNCHANGED nAudio

PhaseClosed ==
  /\ isConnected' = FALSE
  /\ isConnecting' = FALSE
  /\ error' = error

\* onmessage, lines 175-239: no branch of the handler calls setIsConnected,
\* setIsConnecting or setError
PhaseKept == UNCHANGED <<isConnected, isConnecting, error>>

\* onmessage, lines 175-229: up to the await of decodeAudioData, or to the
\* exception that ends it
OnMessage(s, m) ==
  /\ transport[s] = "open"
  /\ m.audio > 0 => nAudio < MaxAudio
  /\ Len(deltas) + (IF m.hasInput THEN 1 ELSE 0)
                 + (IF m.hasOutput THEN 1 ELSE 0) <= MaxDeltas
  /\ nCalls + Len(m.calls) <= MaxCalls
  /\ turns + (IF m.turnComplete THEN 1 ELSE 0) <= MaxTurns
  /\ turns' = turns + (IF m.turnComplete THEN 1 ELSE 0)
  /\ LET tool == HandleCalls(s, m.calls, capTele[s],
                             [active |-> activeInsight, timers |-> insightTimers,
                              shown |-> shown, sent |-> responses,
                              thrown |-> FALSE])
     IN
       /\ nCalls' = nCalls + Len(m.calls)
       /\ activeInsight' = tool.active
       /\ insightTimers' = tool.timers
       /\ shown' = tool.shown
       /\ responses' = tool.sent
       /\ rejected' = rejected + (IF tool.thrown THEN 1 ELSE 0)
       /\ IF tool.thrown
          THEN UNCHANGED <<units, sourcesRef, nextStartTimeRef, epoch,
                           currentPrompt, historyRef, deltas, decoding, nAudio>>
          ELSE OnServerContent(s, m)
  /\ PhaseKept
  /\ UNCHANGED <<rendered,
                 isTeleprompterActive, sessionRef, inputAudioContextRef,
                 outputAudioContextRef, gainNodeRef, videoIntervalRef,
                 processorRef, sourceRef, nSessions, inputCtx, outputCtx,
                 outTime, transport, capTele, taps, timers, connecting, closes,
                 disconnected, report, environment, refused,
                 capture, elapsed, mute>>

\* the timeout of line 188 fires: setActiveInsight(null)
InsightExpired(t) ==
  /\ t \in insightTimers
  /\ insightTimers' = insightTimers \ {t}
  /\ activeInsight' = Null
  /\ UNCHANGED <<hookState, refs, objects, suspended, history, responses,
                 nCalls, shown, rejected, report, environment, refused,
                 capture, turn, mute>>

\* the fixed delay after a turn-complete signal has passed.  onmessage (lines
\* 175-239) does not read serverContent.turnComplete and starts no timer for
\* it, so no code of the hook runs at that time.
DelayElapsed ==
  /\ elapsed < turns
  /\ elapsed' = elapsed + 1
  /\ UNCHANGED <<hookState, refs, objects, suspended, history, activeInsight,
                 insight, report, environment, refused, capture, turns, mute>>

\* line 230: startTime = Math.max(nextStartTimeRef.current, ctx.currentTime)
StartTimeNow(next, now) == now
StartTime(next, now) == Max(next, now)

NextStartTimeKept(startTime, dur) == startTime

\* line 236: nextStartTimeRef.current = startTime + audioBuffer.duration
NextStartTime(startTime, dur) == startTime + dur

\* onmessage resumed with the decoded buffer, lines 230-237.  The buffer
\* source belongs to the context the handler captured before the await;
\* connecting it to a gain node of another context throws (line 233).
AudioDecoded(d) ==
  /\ d \in decoding
  /\ decoding' = decoding \ {d}
  /\ IF gainNodeRef # d.ctx
     THEN UNCHANGED <<units, nextStartTimeRef, sourcesRef>>
     ELSE LET startTime == StartTime(nextStartTimeRef, outTime[d.ctx]) IN
            /\ units' = Append(units, [id |-> d.id, ctx |-> d.ctx,
                                       start |-> startTime, dur |-> d.dur,
                                       status |-> "scheduled", epoch |-> epoch,
                                       interrupted |-> d.interrupted,
                                       disconnected |-> d.disconnected])
            /\ nextStartTimeRef' = NextStartTime(startTime, d.dur)
            /\ sourcesRef' = sourcesRef \cup {Len(units) + 1}
  /\ UNCHANGED <<hookState, sessionRef, inputAudioContextRef,
                 outputAudioContextRef, gainNodeRef, videoIntervalRef,
                 processorRef, sourceRef, historyRef, nSessions, inputCtx,
                 outputCtx, outTime, transport, capTele, taps, timers,
                 connecting, history, activeInsight, insight, report,
                 environment, refused,
                 capture, turn, mute>>

ReserveSlot(next, dur) == next + dur

\* the virtual clock when the decode of a payload of duration dur fails: line
\* 236 is not reached
SkipUnit(next, dur) == next

\* the await of line 229 ends with a rejection: decodeAudioData could not
\* decode the payload.  The async handler has no try around it, so it ends
\* there and its promise is rejected; nothing looks at that promise.
AudioFailed(d) ==
  /\ d \in decoding
  /\ decoding' = decoding \ {d}
  /\ rejected' = rejected + 1
  /\ nextStartTimeRef' = SkipUnit(nextStartTimeRef, d.dur)
  /\ UNCHANGED <<hookState, sessionRef, inputAudioContextRef,
                 outputAudioContextRef, gainNodeRef, videoIntervalRef,
                 processorRef, sourceRef, sourcesRef, historyRef, objects,
                 connecting, history, activeInsight, insightTimers, responses,
                 nCalls, shown, report, environment, refused, capture, turn,
                 mute>>

\* source.onended, line 234: a unit played to its end
SourceEnded(u) ==
  /\ u \in DOMAIN units
  /\ units[u].status = "scheduled"
  /\ outputCtx[units[u].ctx] = "running"
  /\ outTime[units[u].ctx] >= units[u].start + units[u].dur
  /\ units' = [units EXCEPT ![u].status = "ended"]
  /\ sourcesRef' = sourcesRef \ {u}
  /\ UNCHANGED <<hookState, sessionRef, inputAudioContextRef,
                 outputAudioContextRef, gainNodeRef, nextStartTimeRef,
                 videoIntervalRef, processorRef, sourceRef, historyRef,
                 nSessions, inputCtx, outputCtx, outTime, transport, capTele,
                 taps, timers, suspended, history, activeInsight, insight,
                 report, environment, refused,
                 capture, turn, mute>>

\* ---- capture: the audio tap and the frame sampler --------------------------
\* a callback passed to sessionPromise.then(): the send of an audio chunk
\* (line 146) or of a frame (line 167), numbered in capture order
Callback(kind, id) == [kind |-> kind, id |-> id]

\* the session.sendRealtimeInput() call a callback of session s makes (lines
\* 147 and 168); waited says that the callback was registered while the
\* promise was pending
Send(s, cb, waited) ==
  [session |-> s, kind |-> cb.kind, id |-> cb.id, waited |-> waited]

LastFirst(cbs) == [k \in DOMAIN cbs |-> cbs[Len(cbs) + 1 - k]]

\* the order in which a promise that settles runs the callbacks registered on
\* it: that of the then() calls
ThenOrder(cbs) == cbs

NeverBusy(flag) == FALSE

\* line 158: the tick goes on only when !isSendingFrame.current
Busy(flag) == flag

ClearedOnSuccess(ok) == ok

NeverCleared(ok) == FALSE

\* lines 169-171: .catch(() => {}).finally(...) runs the clearing of the flag
\* whether the promise was fulfilled (and the send returned or threw) or
\* rejected
Cleared(ok) == TRUE

\* sessionPromise.then(cb), lines 146 and 167: the callback waits while the
\* promise is pending, runs in the microtasks of the same task when it is
\* fulfilled, and is skipped when it is rejected
Then(s, cb) ==
  /\ waiting' = IF promise[s] = "pending"
                THEN [waiting EXCEPT ![s] = Append(@, cb)]
                ELSE waiting
  /\ outbound' = IF promise[s] = "fulfilled"
                 THEN Append(outbound, Send(s, cb, FALSE))
                 ELSE outbound

\* processor.onaudioprocess, lines 142-149: one capture window of the tap of
\* session s, whose input context is running
AudioProcess(s) ==
  /\ s \in taps
  /\ inputCtx[s] = "running"
  /\ nCaptured < MaxCaptured
  /\ nCaptured' = nCaptured + 1
  /\ Then(s, Callback("audio", nCaptured + 1))
  /\ UNCHANGED <<hookState, refs, objects, suspended, history, activeInsight,
                 insight, report, environment, refused, isSendingFrame,
                 promise, turn, mute>>

\* the interval callback of session s, lines 157-173.  ready: the video
\* element is there and has a frame (readyState >= 2).  With a settled promise
\* the chain then / catch / finally runs before any other task, so the flag
\* is clear again when the step ends.
SamplerTick(s, ready) ==
  /\ s \in timers
  /\ nCaptured < MaxCaptured
  /\ nCaptured' = nCaptured + 1
  /\ IF ready /\ ~Busy(isSendingFrame)
     THEN /\ Then(s, Callback("frame", nCaptured + 1))
          /\ isSendingFrame' = IF promise[s] = "pending" THEN TRUE
                               ELSE ~Cleared(promise[s] = "fulfilled")
     ELSE UNCHANGED <<waiting, outbound, isSendingFrame>>
  /\ UNCHANGED <<hookState, refs, objects, suspended, history, activeInsight,
                 insight, report, environment, refused, promise, turn, mute>>

\* the promise of session s settles, after the open event of its transport:
\* fulfilled with the session (ok) or rejected.  The callbacks that waited
\* run in order; a frame callback is followed by the finally of line 169.
SessionSettled(s, ok) ==
  /\ promise[s] = "pending"
  /\ transport[s] \in {"open", "closed"}
  /\ promise' = [promise EXCEPT ![s] = IF ok THEN "fulfilled" ELSE "rejected"]
  /\ outbound' =
       IF ok
       THEN outbound \o [k \in DOMAIN waiting[s] |->
                           Send(s, ThenOrder(waiting[s])[k], TRUE)]
       ELSE outbound
  /\ waiting' = [waiting EXCEPT ![s] = <<>>]
  /\ isSendingFrame' =
       IF \E k \in DOMAIN waiting[s] : waiting[s][k].kind = "frame"
       THEN isSendingFrame /\ ~Cleared(ok)
       ELSE isSendingFrame
  /\ UNCHANGED <<hookState, refs, objects, suspended, history, activeInsight,
                 insight, report, environment, refused, nCaptured, turn, mute>>

\* ---- the session report ---------------------------------------------------
\* what a generateContent() request can come to: the promise is rejected, the
\* response has no text, its text is not JSON, or its text is JSON
Outcomes == {"rejected", "empty", "unparsable", "json"}

NoEntriesNever(h) == FALSE

\* line 265: historyRef.current.length === 0
NoEntries(h) == Len(h) = 0

ReportResultUnguarded(outcome) ==
  IF outcome = "json" THEN "report"
  ELSE IF outcome = "empty" THEN "null"
  ELSE "threw"

\* lines 286-289: response.text ? JSON.parse(response.text) : null, and null
\* from the catch
ReportResult(outcome) ==
  IF outcome = "json" THEN "report" ELSE "null"

\* generateSessionReport(), lines 264-269: up to the await of generateContent.
\* The GoogleGenAI constructor of line 266 is outside the try: a constructor
\* that refuses a missing key makes the call throw.
GenerateCall ==
  /\ nReports < MaxReports
  /\ nReports' = nReports + 1
  /\ IF NoEntries(historyRef)
     THEN /\ results' = Append(results, [call |-> nReports + 1,
                                         outcome |-> "none", result |-> "null"])
          /\ UNCHANGED <<reporting, requests>>
     ELSE IF ~apiKey
     THEN /\ results' = Append(results, [call |-> nReports + 1,
                                         outcome |-> "none", result |-> "threw"])
          /\ UNCHANGED <<reporting, requests>>
     ELSE /\ requests' = requests + 1
          /\ reporting' = reporting \cup {nReports + 1}
          /\ UNCHANGED results

\* generateSessionReport() called on its own
GenerateSessionReport ==
  /\ GenerateCall
  /\ UNCHANGED <<hookState, refs, objects, suspended, history, activeInsight,
                 insight, environment, refused,
                 capture, turn, mute>>

\* generateSessionReport() resumed when the request has settled, lines 286-289
ReportSettled(c, outcome) ==
  /\ c \in reporting
  /\ reporting' = reporting \ {c}
  /\ results' = Append(results, [call |-> c, outcome |-> outcome,
                                 result |-> ReportResult(outcome)])
  /\ UNCHANGED <<hookState, refs, objects, suspended, history, activeInsight,
                 insight, nReports, requests, environment, refused,
                 capture, turn, mute>>

\* stopRecording() of the component that uses the hook (VideoInterface.tsx,
\* lines 137-144): disconnect(), then generateSessionReport() up to its await
StopRecording ==
  /\ DisconnectCall
  /\ GenerateCall

\* ---- the environment -----------------------------------------------------
\* the clocks of the running output contexts advance
Tick ==
  /\ \E s \in Sessions : outputCtx[s] = "running" /\ outTime[s] < MaxTime
  /\ outTime' = [s \in Sessions |->
                   IF outputCtx[s] = "running" /\ outTime[s] < MaxTime
                   THEN outTime[s] + 1 ELSE outTime[s]]
  /\ UNCHANGED <<hookState, refs, nSessions, inputCtx, outputCtx, transport,
                 capTele, taps, timers, units, suspended, history,
                 activeInsight, insight, report, environment, refused,
                 capture, turn, mute>>

\* React renders the hook again: new closures see the current state
Render ==
  /\ rendered # [isConnected |-> isConnected, isConnecting |-> isConnecting]
  /\ rendered' = [isConnected |-> isConnected, isConnecting |-> isConnecting]
  /\ UNCHANGED <<isConnected, isConnecting, currentPrompt, error,
                 isTeleprompterActive, refs, objects, suspended, history,
                 activeInsight, insight, report, environment, refused,
                 capture, turn, mute>>

\* the parent renders the hook with another isTeleprompterActive, and the
\* effect of lines 84-90 runs
SetTeleprompter ==
  /\ isTeleprompterActive' = ~isTeleprompterActive
  /\ rendered' = [isConnected |-> isConnected, isConnecting |-> isConnecting]
  /\ MuteEffect(isAudioEnabled, ~isTeleprompterActive)
  /\ UNCHANGED <<isConnected, isConnecting, currentPrompt, error, refs,
                 nSessions, inputCtx, outputCtx, outTime, transport, capTele,
                 taps, timers, suspended, history, activeInsight, insight,
                 report, environment, refused, capture, turn, isAudioEnabled,
                 capAudio>>

\* the parent renders the hook with another isAudioEnabled, and the effect of
\* lines 84-90 runs
SetAudioEnabled ==
  /\ isAudioEnabled' = ~isAudioEnabled
  /\ rendered' = [isConnected |-> isConnected, isConnecting |-> isConnecting]
  /\ MuteEffect(~isAudioEnabled, isTeleprompterActive)
  /\ UNCHANGED <<isConnected, isConnecting, currentPrompt, error,
                 isTeleprompterActive, refs, nSessions, inputCtx, outputCtx,
                 outTime, transport, capTele, taps, timers, suspended, history,
                 activeInsight, insight, report, environment, refused, capture,
                 turn, capAudio>>

\* ---- the session with its audio path: lifecycle, audio payloads and
\* interruptions ----------------------------------------------------------
AudioMessages ==
  {Message(i, Absent, Absent, a) : i \in BOOLEAN, a \in 0..MaxDur}
    \ {Message(FALSE, Absent, Absent, 0)}

Next ==
  \/ ConnectNoKey
  \/ ConnectIgnored
  \/ \E suspends \in BOOLEAN, hasStream \in BOOLEAN :
       ConnectBegin(suspends, hasStream)
  \/ \E s \in Sessions, hasStream \in BOOLEAN : ConnectFinish(s, hasStream)
  \/ Disconnect
  \/ \E s \in Sessions : OnClose(s)
  \/ \E s \in Sessions : OnError(s)
  \/ \E s \in Sessions, throws \in BOOLEAN : OnOpen(s, throws)
  \/ \E s \in Sessions, m \in AudioMessages : OnMessage(s, m)
  \/ \E d \in decoding : AudioDecoded(d)
  \/ \E u \in DOMAIN units : SourceEnded(u)
  \/ Tick
  \/ Render

Spec == Init /\ [][Next]_vars

\* ---- the same, with a caller that calls connect() only from an up-to-date
\* render: the flags connect() reads are the current ones --------------------
NextSettled ==
  \/ ConnectNoKey
  \/ ConnectIgnored
  \/ \E suspends \in BOOLEAN, hasStream \in BOOLEAN :
       /\ rendered = [isConnected |-> isConnected, isConnecting |-> isConnecting]
       /\ ConnectBegin(suspends, hasStream)
  \/ \E s \in Sessions, hasStream \in BOOLEAN : ConnectFinish(s, hasStream)
  \/ Disconnect
  \/ \E s \in Sessions : OnClose(s)
  \/ \E s \in Sessions : OnError(s)
  \/ \E s \in Sessions, throws \in BOOLEAN : OnOpen(s, throws)
  \/ \E s \in Sessions, m \in AudioMessages : OnMessage(s, m)
  \/ \E d \in decoding : AudioDecoded(d)
  \/ \E u \in DOMAIN units : SourceEnded(u)
  \/ Tick
  \/ Render

SpecSettled == Init /\ [][NextSettled]_vars

\* ---- the lifecycle alone: connect(), disconnect() and the transport's open,
\* close and error events, with the same caller as above ---------------------
NextLifecycle ==
  \/ ConnectNoKey
  \/ ConnectIgnored
  \/ \E suspends \in BOOLEAN, hasStream \in BOOLEAN :
       /\ rendered = [isConnected |-> isConnected, isConnecting |-> isConnecting]
       /\ ConnectBegin(suspends, hasStream)
  \/ \E s \in Sessions, hasStream \in BOOLEAN : ConnectFinish(s, hasStream)
  \/ Disconnect
  \/ \E s \in Sessions : OnClose(s)
  \/ \E s \in Sessions : OnError(s)
  \/ \E s \in Sessions, throws \in BOOLEAN : OnOpen(s, throws)
  \/ Render

SpecLifecycle == Init /\ [][NextLifecycle]_vars

\* ---- the sessions and their report: one user delta or one model delta per
\* message, generateSessionReport() called at any time ------------------------
ReportMessages ==
  {Message(FALSE, Delta(<<"a">>), Absent, 0),
   Message(FALSE, Absent, Delta(<<"b">>), 0)}

NextReport ==
  \/ ConnectNoKey
  \/ /\ rendered = [isConnected |-> isConnected, isConnecting |-> isConnecting]
     /\ ConnectBegin(FALSE, TRUE)
  \/ Disconnect
  \/ \E s \in Sessions : OnOpen(s, FALSE)
  \/ \E s \in Sessions, m \in ReportMessages : OnMessage(s, m)
  \/ GenerateSessionReport
  \/ \E c \in reporting, outcome \in Outcomes : ReportSettled(c, outcome)
  \/ Render

SpecReport == Init /\ [][NextReport]_vars

\* ---- the hook under the component that uses it: sessions end by
\* stopRecording(), which asks for the report ---------------------------------
NextCaller ==
  \/ ConnectNoKey
  \/ ConnectIgnored
  \/ \E suspends \in BOOLEAN, hasStream \in BOOLEAN :
       /\ rendered = [isConnected |-> isConnected, isConnecting |-> isConnecting]
       /\ ConnectBegin(suspends, hasStream)
  \/ \E s \in Sessions, hasStream \in BOOLEAN : ConnectFinish(s, hasStream)
  \/ StopRecording
  \/ \E c \in reporting, outcome \in Outcomes : ReportSettled(c, outcome)
  \/ \E s \in Sessions : OnClose(s)
  \/ \E s \in Sessions : OnError(s)
  \/ \E s \in Sessions, throws \in BOOLEAN : OnOpen(s, throws)
  \/ \E s \in Sessions, m \in ReportMessages : OnMessage(s, m)
  \/ Render

SpecCaller == Init /\ [][NextCaller]_vars

\* ---- the session with its transcript path: transcript deltas -------------
TextMessages ==
  {Message(FALSE, in, out, 0) :
     in \in {Absent} \cup {Delta(t) : t \in Texts},
     out \in {Absent} \cup {Delta(t) : t \in Texts}}
    \ {Message(FALSE, Absent, Absent, 0)}

NextText ==
  \/ ConnectBegin(FALSE, TRUE)
  \/ Disconnect
  \/ \E s \in Sessions : OnOpen(s, FALSE)
  \/ \E s \in Sessions, m \in TextMessages : OnMessage(s, m)
  \/ Render

SpecText == Init /\ [][NextText]_vars

\* ---- one session with its tool calls: messages that carry function calls,
\* alone or with an output delta, and the teleprompter flag -------------------
CallShapes == {InsightCardTool, OtherTool} \X BOOLEAN

\* the function-call lists of one message, the calls numbered from n + 1
CallSeqs(n) ==
  {<<FunctionCall(n + 1, x[1], x[2])>> : x \in CallShapes}
    \cup {<<FunctionCall(n + 1, x[1], x[2]), FunctionCall(n + 2, y[1], y[2])>> :
            x \in CallShapes, y \in CallShapes}

ToolMessages ==
  {ToolCall(cs, Message(FALSE, Absent, out, 0)) :
     cs \in CallSeqs(nCalls), out \in {Absent, Delta(<<"a">>)}}

NextTools ==
  \/ /\ rendered = [isConnected |-> isConnected, isConnecting |-> isConnecting]
     /\ ConnectBegin(FALSE, TRUE)
  \/ \E s \in Sessions : OnOpen(s, FALSE)
  \/ \E s \in Sessions, m \in ToolMessages : OnMessage(s, m)
  \/ \E c \in insightTimers : InsightExpired(c)
  \/ SetTeleprompter
  \/ Render

SpecTools == Init /\ [][NextTools]_vars

\* ---- the sessions with the visible utterance text: output deltas short and
\* longer than the window, turn-complete signals, the teleprompter flag --------
LongText == [i \in 1..(PromptWindow + 1) |-> "a"]

PromptMessages ==
  {Message(FALSE, Absent, Delta(x), 0) : x \in {<<"a">>, LongText}}
    \cup {TurnComplete(Message(FALSE, Absent, Absent, 0))}

NextPrompt ==
  \/ /\ rendered = [isConnected |-> isConnected, isConnecting |-> isConnecting]
     /\ ConnectBegin(FALSE, TRUE)
  \/ Disconnect
  \/ \E s \in Sessions : OnOpen(s, FALSE)
  \/ \E s \in Sessions, m \in PromptMessages : OnMessage(s, m)
  \/ DelayElapsed
  \/ SetTeleprompter
  \/ Render

SpecPrompt == Init /\ [][NextPrompt]_vars

\* ---- the sessions with the output gain: the two flags change at any time,
\* also while connect() waits for resume(); audio payloads fill the active
\* playback set ---------------------------------------------------------------
MuteMessages == {Message(FALSE, Absent, Absent, MaxDur)}

NextMute ==
  \/ \E suspends \in BOOLEAN :
       /\ rendered = [isConnected |-> isConnected, isConnecting |-> isConnecting]
       /\ ConnectBegin(suspends, TRUE)
  \/ \E s \in Sessions : ConnectFinish(s, TRUE)
  \/ Disconnect
  \/ \E s \in Sessions : OnOpen(s, FALSE)
  \/ \E s \in Sessions, m \in MuteMessages : OnMessage(s, m)
  \/ \E d \in decoding : AudioDecoded(d)
  \/ SetTeleprompter
  \/ SetAudioEnabled
  \/ Render

SpecMute == Init /\ [][NextMute]_vars

\* ---- one session with inbound messages of every kind, decodes that fail,
\* and every way the session ends ---------------------------------------------
AllMessages ==
  {ToolCall(<<FunctionCall(nCalls + 1, InsightCardTool, TRUE)>>,
            Message(FALSE, Absent, Absent, 0)),
   Message(TRUE, Absent, Absent, 0),
   Message(FALSE, Delta(<<"a">>), Absent, 0),
   Message(FALSE, Absent, Delta(<<"b">>), 0),
   TurnComplete(Message(FALSE, Absent, Absent, 0)),
   Message(FALSE, Absent, Absent, MaxDur)}

NextMessages ==
  \/ /\ nSessions = 0
     /\ ConnectBegin(FALSE, TRUE)
  \/ Disconnect
  \/ \E s \in Sessions : OnClose(s)
  \/ \E s \in Sessions : OnError(s)
  \/ \E s \in Sessions : OnOpen(s, FALSE)
  \/ \E s \in Sessions, m \in AllMessages : OnMessage(s, m)
  \/ \E d \in decoding : AudioDecoded(d)
  \/ \E d \in decoding : AudioFailed(d)

SpecMessages == Init /\ [][NextMessages]_vars

\* ---- the sessions with their capture side: the audio tap, the frame sampler
\* and the session promise their sends wait for ------------------------------
NextCapture ==
  \/ /\ rendered = [isConnected |-> isConnected, isConnecting |-> isConnecting]
     /\ ConnectBegin(FALSE, TRUE)
  \/ Disconnect
  \/ \E s \in Sessions : OnOpen(s, FALSE)
  \/ \E s \in Sessions : OnClose(s)
  \/ \E s \in Sessions : AudioProcess(s)
  \/ \E s \in Sessions, ready \in BOOLEAN : SamplerTick(s, ready)
  \/ \E s \in Sessions, ok \in BOOLEAN : SessionSettled(s, ok)
  \/ Render

SpecCapture == Init /\ [][NextCapture]_vars

\* the same, with session promises that settle: the library settles the
\* promise of connect() once the transport has opened
FairCapture ==
  /\ SpecCapture
  /\ \A s \in Sessions : WF_vars(\E ok \in BOOLEAN : SessionSettled(s, ok))

\* ==== the vocabulary of the claims ========================================

\* a step that handles a message carrying the interruption signal
Interruption ==
  \E s \in Sessions, m \in AudioMessages : m.interrupted /\ OnMessage(s, m)

\* the texts of a sequence of deltas, concatenated in order
RECURSIVE Concat(_)
Concat(ds) ==
  IF ds = <<>> THEN <<>> ELSE Head(ds).text \o Concat(Tail(ds))

\* the length of the longest prefix of ds whose deltas all have the first role
RunLength(ds) ==
  CHOOSE k \in 1..Len(ds) :
    /\ \A i \in 1..k : ds[i].role = ds[1].role
    /\ k < Len(ds) => ds[k + 1].role # ds[1].role

\* the maximal same-role runs of a sequence of deltas, one entry per run
RECURSIVE Runs(_)
Runs(ds) ==
  IF ds = <<>> THEN <<>>
  ELSE LET k == RunLength(ds) IN
         <<[role |-> ds[1].role, text |-> Concat(SubSeq(ds, 1, k))]>>
           \o Runs(SubSeq(ds, k + 1, Len(ds)))

\* the state disconnect() leaves
TornDown ==
  /\ ~isConnected
  /\ ~isConnecting
  /\ currentPrompt = SessionEnded
  /\ sessionRef = Null
  /\ inputAudioContextRef = Null
  /\ outputAudioContextRef = Null
  /\ videoIntervalRef = Null
  /\ processorRef = Null
  /\ sourceRef = Null
  /\ sourcesRef = {}
  /\ disconnected

\* the suspended decodes without the marks the model keeps on them
Pending(ds) == {[id |-> d.id, ctx |-> d.ctx, dur |-> d.dur] : d \in ds}

\* a step that runs cleanup() from disconnect(), onclose or onerror
Teardown ==
  \/ Disconnect
  \/ \E s \in Sessions : OnClose(s)
  \/ \E s \in Sessions : OnError(s)

\* a call of connect(), whatever its guard decides
ConnectCall ==
  \/ ConnectNoKey
  \/ ConnectIgnored
  \/ \E suspends \in BOOLEAN, hasStream \in BOOLEAN :
       ConnectBegin(suspends, hasStream)

\* a step that handles a transport's open event
OpenEvent ==
  \E s \in Sessions, throws \in BOOLEAN : OnOpen(s, throws)

\* a connect() call that ends at one of its precondition checks: the
\* credential guard of line 93 or the stream check of line 117
FailedConnect ==
  \/ ConnectNoKey
  \/ ConnectBegin(FALSE, FALSE)
  \/ \E s \in Sessions : ConnectFinish(s, FALSE)

\* a step that handles a transport's error event
ErrorEvent ==
  \E s \in Sessions : OnError(s)

\* the flags are those of the last render
Settled ==
  rendered = [isConnected |-> isConnected, isConnecting |-> isConnecting]

\* a connect() call that finds the stream, does not suspend, opens a transport
\* and leaves Phase Connecting
AcceptedConnect ==
  /\ ConnectBegin(FALSE, TRUE)
  /\ isConnecting' /\ ~isConnected'
  /\ transport'[nSessions'] = "connecting"
  /\ \A s \in Sessions : s # nSessions' => transport'[s] = transport[s]

\* the function calls of cs with a name other than createInsightCard removed
Known(cs) == SelectSeq(cs, LAMBDA fc : fc.name = InsightCardTool)

\* the tool responses sent so far that carry the id of the call fc
ResponsesTo(sent, fc) == {k \in DOMAIN sent : sent[k].id = fc.id}

\* what the loop over the function calls cs makes of the current state, for a
\* message on session s
Handled(s, cs) ==
  HandleCalls(s, cs, capTele[s],
              [active |-> activeInsight, timers |-> insightTimers,
               shown |-> shown, sent |-> responses, thrown |-> FALSE])

\* a generateSessionReport() call, from its start to its first await
ReportCall ==
  \/ GenerateSessionReport
  \/ StopRecording

\* a step that resumes a generateSessionReport() call and ends it
ReportReturn ==
  \E c \in reporting, outcome \in Outcomes : ReportSettled(c, outcome)

\* a step of an operation of the hook or of one of its transport callbacks
\* that sets up, taps or tears down a session
CoordinatorStep ==
  \/ ConnectCall
  \/ \E s \in Sessions, hasStream \in BOOLEAN : ConnectFinish(s, hasStream)
  \/ OpenEvent
  \/ Teardown

\* a step that resumes the handler of the audio payload d and starts its unit
Scheduled(d) ==
  /\ AudioDecoded(d)
  /\ Len(units') = Len(units) + 1

\* an interruption ended a scheduling sequence and no unit was started since
FirstSinceInterruption ==
  /\ epoch > 0
  /\ ~\E u \in DOMAIN units : units[u].epoch = epoch

\* the frames in flight: captured, their send not yet settled
InFlight ==
  {<<s, k>> \in Sessions \X (1..MaxCaptured) :
     k \in DOMAIN waiting[s] /\ waiting[s][k].kind = "frame"}

\* a sampler tick, whatever the video element's state
AnyTick ==
  \E s \in Sessions, ready \in BOOLEAN : SamplerTick(s, ready)

\* a step that handles the message m, one carrying an output transcript delta
OutputDelta(m) ==
  /\ m.hasOutput
  /\ \E s \in Sessions : OnMessage(s, m)

\* a step that handles a message carrying the turn-complete signal
TurnCompleteSignal ==
  \E s \in Sessions, m \in PromptMessages : m.turnComplete /\ OnMessage(s, m)

\* ==== the claims ==========================================================

\* C1: two units scheduled on one output clock with no interruption between
\* them never overlap: the later one starts at or after the end of the earlier.
C1_NoOverlap ==
  \A i, j \in DOMAIN units :
    (i < j /\ units[i].ctx = units[j].ctx /\ units[i].epoch = units[j].epoch)
      => units[j].start >= units[i].start + units[i].dur

\* two units of one sequence, the second starting exactly where the first ends
C1_Witness ==
  \E i, j \in DOMAIN units :
    /\ i < j
    /\ units[i].epoch = units[j].epoch
    /\ units[i].ctx = units[j].ctx
    /\ units[j].start = units[i].start + units[i].dur

\* C2: right after the handler processed a message carrying the interruption
\* signal, the active playback set is empty and every unit that was in it is
\* stopped.
C2_InterruptionEmptiesSet ==
  [][Interruption =>
       /\ sourcesRef' = {}
       /\ \A u \in sourcesRef : units'[u].status = "stopped"]_vars

\* a unit was stopped although no teardown ever ran: an interruption stopped it
C2_Witness ==
  /\ \E u \in DOMAIN units : units[u].status = "stopped"
  /\ sourcesRef = {}
  /\ ~disconnected
  /\ \A s \in Sessions : closes[s].input = 0 /\ closes[s].output = 0
  /\ \A s \in Sessions : transport[s] # "closed"

\* C3: no unit comes from a payload whose decode was pending when an
\* interruption was handled.
C3_NoUnitFromBeforeInterruption ==
  \A u \in DOMAIN units : ~units[u].interrupted

\* C4: once disconnect() returned, and until the next connect(), the active
\* playback set is empty and no unit is started.
C4_SilentAfterDisconnect ==
  [][disconnected' =>
       /\ sourcesRef' = {}
       /\ disconnected => Len(units') = Len(units)]_vars

\* C5: when every delta handled since the history was reset is non-empty, the
\* Transcript is the sequence of the maximal same-role runs of the deltas, each
\* entry's text being the run's texts concatenated in arrival order.
C5_TranscriptIsRuns ==
  (\A i \in DOMAIN deltas : deltas[i].text # <<>>) => historyRef = Runs(deltas)

\* deltas with roles user, user, model, user gave three entries, the first
\* the two user deltas concatenated
C5_Witness ==
  /\ Len(deltas) = 4
  /\ \A i \in DOMAIN deltas : deltas[i].text # <<>>
  /\ [i \in 1..4 |-> deltas[i].role] = <<"user", "user", "model", "user">>
  /\ deltas[1].text # deltas[2].text
  /\ Len(historyRef) = 3
  /\ historyRef[1].text = deltas[1].text \o deltas[2].text

\* C6: disconnect() is idempotent: it always ends in the torn-down state, from
\* the torn-down state it changes nothing, and no context is closed twice.
C6_DisconnectIdempotent ==
  [][Disconnect =>
       /\ TornDown'
       /\ TornDown => /\ UNCHANGED <<hookState, refs, objects, connecting, closes>>
                      /\ Pending(decoding') = Pending(decoding)
       /\ \A s \in Sessions : closes'[s].input <= 1 /\ closes'[s].output <= 1]_vars

\* disconnect() tore down an open session with a unit in the playback set
C6_Witness ==
  /\ TornDown
  /\ \E u \in DOMAIN units : units[u].status = "stopped" /\ units[u].disconnected = FALSE
  /\ \E s \in Sessions : closes[s].input = 1 /\ closes[s].output = 1 /\ transport[s] = "open"

\* C7: after disconnect(), a close event or an error event, Phase is neither
\* Connecting nor Open, no audio tap and no sampler timer is left, the playback
\* set is empty with its units stopped, and no audio context is still open.
C7_TeardownReleasesAll ==
  [][Teardown =>
       /\ ~isConnected' /\ ~isConnecting'
       /\ taps' = {}
       /\ timers' = {}
       /\ sourcesRef' = {}
       /\ \A u \in sourcesRef : units'[u].status = "stopped"
       /\ inputAudioContextRef' = Null /\ outputAudioContextRef' = Null
       /\ \A s \in Sessions :
            inputCtx'[s] # "running" /\ outputCtx'[s] # "running"]_vars

\* C8: a connect() call made while Phase is Connecting or Open opens no
\* transport and leaves the Transcript, the virtual clock, the error and Phase
\* as they were.
C8_ConnectWhileBusyIsNoOp ==
  [][(ConnectCall /\ (isConnecting \/ isConnected)) =>
       UNCHANGED <<transport, nSessions, historyRef, nextStartTimeRef, error,
                   isConnected, isConnecting>>]_vars

\* C9: at most one transport is live (connecting or open) at any time.
C9_AtMostOneLiveTransport ==
  Cardinality({s \in Sessions : Live(s)}) <= 1

\* C10: Phase becomes Open only from Connecting, by an open event; and an open
\* event that arrives after disconnect() (no connect() since) neither sets Phase
\* to Open nor starts the audio tap or the frame sampler.
C10_OpenOnlyFromConnecting ==
  [][/\ (isConnected' /\ ~isConnected) => (isConnecting /\ OpenEvent)
     /\ (OpenEvent /\ disconnected) =>
          (~isConnected' /\ taps' = taps /\ timers' = timers)]_vars

\* C11: a connect() call that fails a precondition (no credential, or no media
\* stream on the video element) opens no transport, and Phase is neither
\* Connecting nor Open while the call runs or when it has returned.
C11_FailedConnectStaysIdle ==
  [][FailedConnect =>
       /\ UNCHANGED transport
       /\ ~isConnecting /\ ~isConnected
       /\ ~isConnecting' /\ ~isConnected']_vars

\* C12: when a connect() call has failed a precondition, the error shown to the
\* caller is a message, for the missing credential as for the missing stream.
C12_FailedConnectSetsError ==
  [][FailedConnect => error' # NoError]_vars

\* C13: when the handler of a transport error event that came while Phase was
\* Connecting or Open returns, teardown has run and the error shown to the
\* caller is a message.
C13_ErrorEventSetsError ==
  [][(ErrorEvent /\ (isConnecting \/ isConnected)) =>
       /\ ~isConnecting' /\ ~isConnected'
       /\ sessionRef' = Null /\ processorRef' = Null /\ videoIntervalRef' = Null
       /\ error' # NoError]_vars

\* C14: in every tool-call message, a function call whose name is not
\* createInsightCard sets no insight and gets no tool response, and the message
\* is handled as if the call were not in it: the other calls get their insight
\* and response, the handler raises no error on its account, and the transport
\* and Phase stay as they were for the messages that follow.
C14_UnknownCallsIgnored ==
  [][\A s \in Sessions, m \in ToolMessages : OnMessage(s, m) =>
       /\ \A i \in DOMAIN m.calls : m.calls[i].name # InsightCardTool =>
            /\ m.calls[i].id \notin shown'
            /\ ResponsesTo(responses', m.calls[i]) = {}
       /\ Handled(s, m.calls) = Handled(s, Known(m.calls))
       /\ activeInsight' = Handled(s, Known(m.calls)).active
       /\ shown' = Handled(s, Known(m.calls)).shown
       /\ responses' = Handled(s, Known(m.calls)).sent
       /\ rejected' = rejected + (IF Handled(s, Known(m.calls)).thrown THEN 1 ELSE 0)
       /\ UNCHANGED <<transport, isConnected, isConnecting, error>>]_vars

\* of two calls handled without an exception the first got no response and set
\* no insight, the second got its response and set the insight
C14_Witness ==
  /\ nCalls = 2
  /\ rejected = 0
  /\ Len(responses) = 1
  /\ responses[1].id = 2
  /\ shown = {2}
  /\ activeInsight = 2

\* C15: every function call named createInsightCard of an inbound message gets
\* exactly one tool response, with the call's id and name and the result "ok",
\* whether the teleprompter flag is set or not; and it sets an insight only
\* when the flag is not set.
C15_InsightCallAnswered ==
  [][\A s \in Sessions, m \in ToolMessages : OnMessage(s, m) =>
       \A i \in DOMAIN m.calls : m.calls[i].name = InsightCardTool =>
         /\ \E k \in DOMAIN responses' :
              /\ ResponsesTo(responses', m.calls[i]) = {k}
              /\ responses'[k] = [session |-> s, id |-> m.calls[i].id,
                                  name |-> InsightCardTool, result |-> "ok"]
         /\ m.calls[i].id \in shown' => ~isTeleprompterActive]_vars

\* C16: when stopRecording() asks for the report, disconnect() has returned
\* and teardown is complete: Phase is not Open (nor Connecting), no audio tap
\* and no frame sampler is left, and the active playback set is empty.
C16_ReportAfterTeardown ==
  [][StopRecording =>
       /\ nReports' = nReports + 1
       /\ ~isConnected' /\ ~isConnecting'
       /\ taps' = {} /\ timers' = {}
       /\ sourcesRef' = {}]_vars

\* C17: generateSessionReport() called with an empty Transcript returns null
\* and makes no request.
C17_EmptyTranscriptNoRequest ==
  [][(ReportCall /\ historyRef = <<>>) =>
       /\ Len(results') = Len(results) + 1
       /\ results'[Len(results')].result = "null"
       /\ requests' = requests
       /\ reporting' = reporting]_vars

\* a call made while the Transcript was empty returned null with no request
\* made, and a later call, made with entries in the Transcript, made one
C17_Witness ==
  /\ nReports = 2
  /\ results # <<>>
  /\ results[1] = [call |-> 1, outcome |-> "none", result |-> "null"]
  /\ requests = 1
  /\ reporting = {2}

\* C18: generateSessionReport() never throws: a call returns null when its
\* request is rejected, answers no text or answers text that is not JSON, and
\* neither the call nor its return changes Phase or the Transcript.
C18_ReportNeverFails ==
  /\ [](\A k \in DOMAIN results :
          /\ results[k].result \in {"null", "report"}
          /\ results[k].outcome # "json" => results[k].result = "null")
  /\ [][(GenerateSessionReport \/ ReportReturn) =>
          UNCHANGED <<isConnected, isConnecting, error, historyRef>>]_vars

\* two calls came back null, one from a rejected request and one from text
\* that is not JSON
C18_Witness ==
  /\ \E k \in DOMAIN results : results[k].outcome = "rejected"
  /\ \E k \in DOMAIN results : results[k].outcome = "unparsable"
  /\ \A k \in DOMAIN results : results[k].result = "null"
  /\ historyRef # <<>>

C20_StreamLeftAlone ==
  [][CoordinatorStep => tracksStopped' = tracksStopped]_vars

\* a session was opened and its tap connected, then a close or error event
\* tore it down, and the tracks of the stream were not stopped
C20_Witness ==
  /\ nSessions = 1
  /\ ~disconnected
  /\ currentPrompt = Listening
  /\ transport[1] = "closed"
  /\ closes[1].input = 1
  /\ sourceRef = Null
  /\ taps = {}
  /\ ~tracksStopped

\* C21: the unit of every audio payload starts at the later of the virtual
\* clock and the current time of its output context, so never before that
\* current time, and the virtual clock is then the unit's start plus its
\* duration.
C21_StartIsMaxOfClocks ==
  [][\A d \in decoding : Scheduled(d) =>
       LET u == units'[Len(units')] IN
         /\ u.start = (IF nextStartTimeRef >= outTime[d.ctx]
                       THEN nextStartTimeRef ELSE outTime[d.ctx])
         /\ u.start >= outTime[d.ctx]
         /\ u.dur = d.dur
         /\ nextStartTimeRef' = u.start + u.dur]_vars

\* the last unit started at the virtual clock, ahead of the current time of
\* its context, and the virtual clock stands at its end
C21_Witness ==
  /\ Len(units) >= 2
  /\ units[Len(units)].start > outTime[units[Len(units)].ctx]
  /\ units[Len(units)].start > 0
  /\ nextStartTimeRef = units[Len(units)].start + units[Len(units)].dur

\* C22: handling an interruption sets the virtual clock to 0, and the first
\* unit started after it starts at the current time of its output context,
\* whatever the end times of the units started before the interruption.
C22_InterruptionResetsClock ==
  [][/\ Interruption => nextStartTimeRef' = 0
     /\ \A d \in decoding : (Scheduled(d) /\ FirstSinceInterruption) =>
          units'[Len(units')].start = outTime[d.ctx]]_vars

\* a unit started after an interruption starts before the end of a unit
\* started before it on the same context
C22_Witness ==
  \E i, j \in DOMAIN units :
    /\ i < j
    /\ units[i].ctx = units[j].ctx
    /\ units[i].epoch < units[j].epoch
    /\ units[j].start < units[i].start + units[i].dur

\* C23: at most one frame is in flight at any time, and a sampler tick that
\* fires while a frame is in flight captures nothing, sends nothing and leaves
\* nothing waiting to be sent later.
C23_OneFrameInFlight ==
  /\ [](Cardinality(InFlight) <= 1)
  /\ [](isSendingFrame <=> InFlight # {})
  /\ [][(AnyTick /\ InFlight # {}) =>
          UNCHANGED <<waiting, outbound, isSendingFrame>>]_vars

\* a frame is in flight on a pending session promise and a later tick has
\* fired: of the two callbacks that fired, one frame waits and nothing was sent
C23_Witness ==
  /\ nCaptured = 2
  /\ Cardinality(InFlight) = 1
  /\ \A s \in Sessions : Len(waiting[s]) <= 1
  /\ outbound = <<>>
  /\ isSendingFrame

\* C24: once a sampler tick has set the in-flight flag the flag is cleared in
\* the end, whether the frame is sent or the send fails, and only the step
\* that settles the send of the frame in flight clears it.
C24_FlagClearedOnSettle ==
  /\ isSendingFrame ~> ~isSendingFrame
  /\ [][(isSendingFrame /\ ~isSendingFrame') =>
          \E s \in Sessions, ok \in BOOLEAN :
            /\ SessionSettled(s, ok)
            /\ \E k \in DOMAIN waiting[s] : waiting[s][k].kind = "frame"]_vars

\* a frame that waited for the session promise was never sent, the promise
\* having been rejected, and the flag is clear again
C24_Witness ==
  /\ ~isSendingFrame
  /\ \E s \in Sessions :
       /\ promise[s] = "rejected"
       /\ timers # {}
       /\ nCaptured = 1
       /\ waiting[s] = <<>>
       /\ outbound = <<>>
       /\ isConnected

\* C25: while Phase is Open with the session there and the video ready, a
\* sampler tick that finds no frame in flight makes exactly one send call, for
\* the frame it captured, and leaves no frame in flight.
C25_OneFramePerTick ==
  [][\A s \in Sessions :
       (/\ SamplerTick(s, TRUE)
        /\ isConnected
        /\ transport[s] = "open"
        /\ promise[s] = "fulfilled"
        /\ InFlight = {}) =>
         /\ outbound' = Append(outbound, [session |-> s, kind |-> "frame",
                                          id |-> nCaptured + 1,
                                          waited |-> FALSE])
         /\ InFlight' = {}]_vars

\* three ticks in a row sent three frames, one each
C25_Witness ==
  /\ Len(outbound) = 3
  /\ nCaptured = 3
  /\ \A k \in 1..3 :
       outbound[k] = [session |-> 1, kind |-> "frame", id |-> k, waited |-> FALSE]
  /\ isConnected

\* C26: the send calls for the audio chunks of a session are made in the order
\* of their capture callbacks, for the chunks captured while the session
\* promise was pending as for the others.
C26_AudioInCaptureOrder ==
  \A i, j \in DOMAIN outbound :
    (/\ i < j
     /\ outbound[i].kind = "audio" /\ outbound[j].kind = "audio"
     /\ outbound[i].session = outbound[j].session)
      => outbound[i].id < outbound[j].id

\* two chunks captured while the promise was pending were sent when it was
\* fulfilled, and a chunk captured afterwards was sent after them
C26_Witness ==
  /\ Len(outbound) = 3
  /\ \A k \in 1..3 : outbound[k].kind = "audio" /\ outbound[k].session = 1
  /\ outbound[1].waited /\ outbound[2].waited /\ ~outbound[3].waited
  /\ outbound[1].id < outbound[2].id /\ outbound[2].id < outbound[3].id

\* C27: after every output transcript delta, whatever its length and its place
\* in the turn, the visible utterance text has at most 300 characters.
C27_PromptWithinWindow ==
  [][\A m \in PromptMessages :
       OutputDelta(m) => Len(currentPrompt') <= PromptWindow]_vars

\* C28: an output transcript delta handled while the teleprompter flag is set,
\* whenever it was set, leaves the visible utterance text as it was and is
\* appended to the Transcript under role model.
C28_TeleprompterHidesDeltas ==
  [][\A m \in PromptMessages :
       (OutputDelta(m) /\ isTeleprompterActive) =>
         /\ currentPrompt' = currentPrompt
         /\ historyRef' = AppendDelta(historyRef, "model", m.outputText)]_vars

\* C29: when the fixed delay after a handled turn-complete signal has passed
\* the visible utterance text is empty, and neither the handling of the signal
\* nor the clearing changes the Transcript.
C29_TurnCompleteClearsPrompt ==
  /\ [][DelayElapsed => currentPrompt' = <<>>]_vars
  /\ [][(TurnCompleteSignal \/ DelayElapsed) => UNCHANGED historyRef]_vars

\* C30: the active insight changes only when its own timer fires, when a newer
\* function call replaces it, or at a teardown; the timer of an earlier
\* insight leaves a later one in place.
C30_InsightKeptUntilOwnExpiry ==
  [][(activeInsight # Null /\ activeInsight' # activeInsight) =>
       \/ activeInsight \in insightTimers /\ InsightExpired(activeInsight)
       \/ activeInsight' \in shown' \ shown
       \/ Teardown]_vars

\* C31: whenever the output sink of a session exists, its gain target is 0
\* exactly when audio is disabled or teleprompter mode is active, and 1
\* otherwise; also after a flag changed while connect() was setting up the
\* sink.
C31_GainFollowsFlags ==
  (gainNodeRef # Null /\ outputAudioContextRef # Null) =>
    gain[gainNodeRef] = (IF ~isAudioEnabled \/ isTeleprompterActive THEN 0 ELSE 1)

\* C32: a change of the mute flag or of the teleprompter flag changes the gain
\* target and nothing of the playback: the active playback set, the units with
\* their start times and states, the virtual clock and Phase stay as they are.
C32_FlagChangeOnlyGain ==
  [][(SetTeleprompter \/ SetAudioEnabled) =>
       /\ UNCHANGED <<sourcesRef, units, nextStartTimeRef>>
       /\ Phase' = Phase]_vars

\* audio was switched off with a sink in place and two units in the active
\* playback set, both still playing
C32_Witness ==
  /\ ~isAudioEnabled
  /\ gainNodeRef # Null /\ outputAudioContextRef # Null
  /\ gain[gainNodeRef] = 0
  /\ Cardinality(sourcesRef) = 2
  /\ \A u \in sourcesRef : units[u].status = "scheduled"

\* C33: the handling of an inbound message, the part after its decode
\* included, leaves Phase unchanged; Phase changes only in connect(), at a
\* transport's open, close or error event, and in disconnect().
C33_PhaseOnlyOnLifecycle ==
  [][/\ (\E s \in Sessions, m \in AllMessages : OnMessage(s, m)) => Phase' = Phase
     /\ (\E d \in decoding : AudioDecoded(d) \/ AudioFailed(d)) => Phase' = Phase
     /\ Phase' # Phase =>
          \/ ConnectCall
          \/ \E s \in Sessions, hasStream \in BOOLEAN : ConnectFinish(s, hasStream)
          \/ OpenEvent
          \/ Teardown]_vars

\* a message of every kind was handled and Phase is still Open
C33_Witness ==
  /\ Phase = "Open"
  /\ nCalls > 0
  /\ turns > 0
  /\ epoch > 0
  /\ \E i, j \in DOMAIN deltas : deltas[i].role = "user" /\ deltas[j].role = "model"
  /\ units # <<>>

\* C34: the Transcript only takes deltas from the transport of the connect()
\* call that last reset it: a step that appends a delta is a delivery by that
\* transport; and connect() resets the Transcript only when Phase is not Open.
C34_TranscriptOfOneSession ==
  [][/\ \A m \in PromptMessages :
          (OutputDelta(m) /\ historyRef' # historyRef) => OnMessage(nSessions, m)
     /\ ConnectCall /\ historyRef' # historyRef => ~isConnected]_vars

\* C35: a decode that fails skips its unit and nothing else: Phase, the
\* virtual clock, the active playback set and the units are unchanged, no
\* transport, tap or timer is touched, and an open transport goes on
\* delivering messages to the handler.
C35_FailedDecodeSkipped ==
  /\ [][(\E d \in decoding : AudioFailed(d)) =>
          /\ Phase' = Phase
          /\ UNCHANGED <<nextStartTimeRef, sourcesRef, units>>
          /\ UNCHANGED <<sessionRef, outputAudioContextRef, transport, taps,
                         timers, closes, disconnected>>]_vars
  /\ [](\A s \in Sessions :
          (rejected > 0 /\ transport[s] = "open" /\ Len(deltas) < MaxDeltas) =>
            ENABLED OnMessage(s, Message(FALSE, Absent, Delta(<<"b">>), 0)))

\* the first payload failed to decode; the second was decoded afterwards and
\* plays from the start of the clock, in a session that is still Open
C35_Witness ==
  /\ rejected = 1
  /\ Phase = "Open"
  /\ nAudio = 2
  /\ decoding = {}
  /\ Len(units) = 1
  /\ units[1].id = 2 /\ units[1].start = 0 /\ units[1].status = "scheduled"

\* C36: no two adjacent Transcript entries have the same role.
C36_AdjacentRolesDiffer ==
  \A i \in DOMAIN historyRef :
    i < Len(historyRef) => historyRef[i].role # historyRef[i + 1].role

\* four deltas, two of them merged into the entry before them, left a
\* Transcript of two entries
C36_Witness ==
  /\ Len(deltas) = 4
  /\ [i \in 1..4 |-> deltas[i].role] = <<"user", "user", "model", "model">>
  /\ Len(historyRef) = 2
  /\ historyRef[1].role = "user" /\ historyRef[2].role = "model"
  /\ Len(historyRef[1].text) = 2 /\ Len(historyRef[2].text) = 2

\* C37: every Transcript entry has a non-empty text, whichever role it has.
C37_NoEmptyEntry ==
  \A i \in DOMAIN historyRef : historyRef[i].text # <<>>

\* C38: of two units started on one output context with no interruption
\* between them, the one whose payload arrived first starts first.
C38_UnitsInArrivalOrder ==
  \A i, j \in DOMAIN units :
    (/\ units[i].id < units[j].id
     /\ units[i].ctx = units[j].ctx
     /\ units[i].epoch = units[j].epoch)
      => units[i].start < units[j].start

\* C39: at most one frame-sampler timer runs at any time, and none runs once
\* disconnect(), a close event or an error event has torn the session down.
C39_OneSamplerTimer ==
  /\ [](Cardinality(timers) <= 1)
  /\ [][Teardown => timers' = {}]_vars

\* C40: while Phase is not Open, after a teardown as before the first open
\* event, no sendRealtimeInput() call is made, for an audio chunk or a frame,
\* captured then or waiting on the session promise.
C40_NoSendAfterTeardown ==
  [][(~isConnected /\ ~isConnected') => outbound' = outbound]_vars

====
